---- MODULE Spec2Model ----
(***************************************************************************)
(* Write path and durability coordination of the keyspace: the write entry *)
(* points of a partition (insert, remove), memtable rotation with the      *)
(* proactive drain and the write halt, the write stall, the flush manager  *)
(* and the journal bookkeeping that rotation and flushing drive.           *)
(***************************************************************************)
EXTENDS Integers, Sequences, FiniteSets, TLC

Partitions == {"p1", "p2"}
Threads == {"t1", "t2"}
Keys == {"a", "b"}
Values == {"v1", "v2"}

\* Number of sequence numbers the counter hands out before writers stop.
MaxLsn == 2
\* Number of direct rotate_memtable calls the callers make.
MaxRotateCalls == 1
\* Deepest chain of nested rotate_memtable calls a thread may build.
MaxDepth == 2
\* Configuration: PartitionHandleInner::max_memtable_size.
max_memtable_size == 2
\* Configuration: KeyspaceConfig::max_journaling_size_in_bytes.
max_journaling_size_in_bytes == 1

\* Thresholds of check_write_stall and check_memtable_overflow.
L0HardLimit == 20
L0SoftLimit == 16

NoValue == "None"
NoLsn == -1

VARIABLES
    seqno,              \* SequenceNumberCounter: the next LSN
    journal,            \* records of the active journal
    sealed_journals,    \* JournalManager: sequence of [recs, map] entries
    active_memtable,    \* per partition: entries of the active memtable
    approx_size,        \* per partition: approx_active_memtable_size
    immutable_memtables,\* per partition: set of sealed memtables
    segments,           \* per partition: entries persisted in segments
    l0,                 \* per partition: first_level_segment_count
    queues,             \* FlushManager.queues
    lru_list,           \* FlushManager.lru_list.items
    flush_semaphore,    \* permits of the flush semaphore
    compaction_notified,\* partitions the compaction manager was notified of
    flush_signals,      \* history: flush tasks enqueued and permits released by rotations
    collected,          \* FlushManager driver: what the last collect_tasks returned
    fm_call,            \* FlushManager driver: the last call and the tasks made so far
    clock,              \* id driver: the time of the last rotation
    sealed_ids,         \* id driver: the sealed ids in the order they were made
    workers,            \* flush workers: per worker, its step and the tasks it collected
    written,            \* flush workers: per task, how often it was written as a segment
    held,               \* lock-level model: per thread, the locks it holds, oldest first
    shards,             \* lock-level model: per shard of the active journal, the LSNs written
    local,              \* lock-level model: per thread, the locals of its call
    th,                 \* per thread: the call it runs and where it is
    rotate_calls,       \* direct rotate_memtable calls made so far
    io_errors,          \* history: journal writes that failed
    accepted            \* history: per partition, every entry applied to a memtable

vars == <<seqno, journal, sealed_journals, active_memtable, approx_size,
          immutable_memtables, segments, l0, queues, lru_list,
          flush_semaphore, compaction_notified, th, rotate_calls, io_errors,
          accepted, flush_signals, collected, fm_call, clock, sealed_ids,
          workers, written, held, shards, local>>

\* The variables of the drivers of single components; the write path
\* leaves them alone.
Shards == {"s1", "s2"}
Workers == {"w1", "w2"}

aux == <<collected, fm_call, clock, sealed_ids, workers, written, held,
        shards, local>>

\* The time before the first rotation.
Epoch == [month |-> 0, day |-> 0, hour |-> 0, min |-> 0, sec |-> 0, nano |-> 0]

\* The locals of a call that has none yet.
NoLocals == [shard |-> "-", size |-> 0, yanked |-> {}, map |-> <<>>]

NoCall == [op |-> "none", part |-> "-", cnt |-> 0, made |-> 0,
           run |-> <<>>, start |-> <<>>]

\* The flush tasks the drivers of the flush manager make at most.
MaxTasks == 3

\* A flush worker that waits on the semaphore.
IdleWorker == [pc |-> "idle", tasks |-> <<>>]

AuxInit ==
    /\ workers = [w \in Workers |-> IdleWorker]
    /\ written = [i \in 1..MaxTasks |-> 0]
    /\ collected = <<>>
    /\ fm_call = NoCall
    /\ clock = Epoch
    /\ sealed_ids = <<>>
    /\ held = [t \in Threads |-> <<>>]
    /\ shards = [s \in Shards |-> <<>>]
    /\ local = [t \in Threads |-> NoLocals]

----------------------------------------------------------------------------
\* Pure helpers

MaxOf(S) == CHOOSE x \in S : \A y \in S : y <= x

Range(s) == {s[i] : i \in 1..Len(s)}

\* Bytes an item adds: key length plus value length (keys and values of
\* this model are one byte long, a tombstone's value is empty).
ItemSize(e) == 1 + (IF e.kind = "Value" THEN 1 ELSE 0)

\* MemTable::get_lsn: the largest LSN inserted, or none when empty.
get_lsn(m) == IF m = {} THEN NoLsn ELSE MaxOf({e.lsn : e \in m})

Entry(k, v, kind, lsn) == [key |-> k, val |-> v, kind |-> kind, lsn |-> lsn]
Record(p, e) == [part |-> p, key |-> e.key, val |-> e.val, kind |-> e.kind, lsn |-> e.lsn]

\* Everything a read of partition p sees: active memtable, sealed
\* memtables and segments.
TreeEntries(p) == active_memtable[p] \cup UNION immutable_memtables[p] \cup segments[p]

\* Newest entry of key k in a set of entries.
Newest(S, k) ==
    LET ks == {e \in S : e.key = k}
    IN CHOOSE e \in ks : \A o \in ks : o.lsn <= e.lsn

HasKey(S, k) == \E e \in S : e.key = k

GetIn(S, k) ==
    IF ~HasKey(S, k) THEN NoValue
    ELSE IF Newest(S, k).kind = "Tombstone" THEN NoValue
    ELSE Newest(S, k).val

VisibleKeys(S) == {k \in Keys : GetIn(S, k) # NoValue}

\* PartitionHandle::get / contains_key
get(p, k) == GetIn(TreeEntries(p), k)
contains_key(p, k) == get(p, k) # NoValue

\* JournalManager::disk_space_used: bytes of the active and the sealed journals.
RECURSIVE JournalBytes(_)
JournalBytes(recs) ==
    IF recs = {} THEN 0
    ELSE LET r == CHOOSE x \in recs : TRUE
         IN ItemSize(r) + JournalBytes(recs \ {r})

RECURSIVE SealedBytes(_)
SealedBytes(js) ==
    IF js = <<>> THEN 0 ELSE JournalBytes(Head(js).recs) + SealedBytes(Tail(js))

DiskSpaceOf(act, sealed) == JournalBytes(act) + SealedBytes(sealed)
disk_space_used == DiskSpaceOf(journal, sealed_journals)

\* (max_journaling_size_in_bytes as f32 * 0.66) as u64
DrainThreshold == (max_journaling_size_in_bytes * 66) \div 100

----------------------------------------------------------------------------
\* Threads

\* A thread between calls: res is what its last call returned, kind the
\* call it was ("Value": insert, "Tombstone": remove, "Rotate"). During a
\* write, over tells whether the journals were above
\* max_journaling_size_in_bytes when the call was issued.
IdleThread(res, kind) ==
    [pc |-> "idle", part |-> "-", key |-> "-", val |-> "-", kind |-> kind,
     lsn |-> NoLsn, res |-> res, over |-> FALSE, stack |-> <<>>]

Frame(p, pc, jsize) == [part |-> p, pc |-> pc, jsize |-> jsize]

Top(t) == th[t].stack[Len(th[t].stack)]
InFrame(t, pc) == th[t].stack # <<>> /\ Top(t).pc = pc
SetTop(s, f) == [s EXCEPT ![Len(s)] = f]
Pop(s) == SubSeq(s, 1, Len(s) - 1)

Init ==
    /\ seqno = 0
    /\ journal = {}
    /\ sealed_journals = <<>>
    /\ active_memtable = [p \in Partitions |-> {}]
    /\ approx_size = [p \in Partitions |-> 0]
    /\ immutable_memtables = [p \in Partitions |-> {}]
    /\ segments = [p \in Partitions |-> {}]
    /\ l0 = [p \in Partitions |-> 0]
    /\ queues = [p \in Partitions |-> <<>>]
    /\ lru_list = <<>>
    /\ flush_semaphore = 0
    /\ compaction_notified = {}
    /\ th = [t \in Threads |-> IdleThread("none", "-")]
    /\ rotate_calls = 0
    /\ io_errors = 0
    /\ accepted = [p \in Partitions |-> {}]
    /\ flush_signals = [enqueued |-> 0, released |-> 0]
    /\ AuxInit

----------------------------------------------------------------------------
\* Write path: PartitionHandle::insert and PartitionHandle::remove

\* Changed: the LSN is read from the counter without the atomic fetch-add,
\* so that a writer may see the value the previous writer saw.
JournalWritten_stale(t, p, k, v, kind) ==
    LET lsn == IF seqno > 0 THEN seqno - 1 ELSE 0
    IN /\ seqno' = seqno + 1
       /\ journal' = journal \cup {Record(p, Entry(k, v, kind, lsn))}
       /\ th' = [th EXCEPT ![t] =
                   [IdleThread("none", kind) EXCEPT
                       !.pc = "mem", !.part = p, !.key = k, !.val = v, !.lsn = lsn]]
       /\ UNCHANGED <<sealed_journals, active_memtable, approx_size,
                      immutable_memtables, segments, l0, queues, lru_list,
                      flush_semaphore, compaction_notified, accepted,
                      rotate_calls, io_errors,
                   flush_signals, aux>>

\* The journal write succeeded: the shard was taken, the LSN drawn from the
\* counter and the record written under the shard lock, the shard dropped.
JournalWritten(t, p, k, v, kind) ==
    /\ seqno' = seqno + 1
    /\ journal' = journal \cup {Record(p, Entry(k, v, kind, seqno))}
    /\ th' = [th EXCEPT ![t] =
                [pc |-> "mem", part |-> p, key |-> k, val |-> v, kind |-> kind,
                 lsn |-> seqno, res |-> "none",
                 over |-> disk_space_used > max_journaling_size_in_bytes,
                 stack |-> <<>>]]
    /\ UNCHANGED <<sealed_journals, active_memtable, approx_size,
                   immutable_memtables, segments, l0, queues, lru_list,
                   flush_semaphore, compaction_notified, accepted, rotate_calls, io_errors,
                   flush_signals, aux>>

\* Changed: the error of the journal write is dropped and the call goes on
\* to the memtable.
JournalWriteFailed_ignored(t, p, k, v, kind) ==
    /\ seqno' = seqno + 1
    /\ io_errors' = io_errors + 1
    /\ th' = [th EXCEPT ![t] =
                [IdleThread("none", kind) EXCEPT
                    !.pc = "mem", !.part = p, !.key = k, !.val = v, !.lsn = seqno]]
    /\ UNCHANGED <<journal, sealed_journals, active_memtable, approx_size,
                   immutable_memtables, segments, l0, queues, lru_list,
                   flush_semaphore, compaction_notified, accepted, rotate_calls,
                   flush_signals, aux>>

\* shard.writer.write(..)? failed: the LSN is spent, the call returns the error.
JournalWriteFailed(t, p, k, v, kind) ==
    /\ seqno' = seqno + 1
    /\ io_errors' = io_errors + 1
    /\ th' = [th EXCEPT ![t] = IdleThread("IoError", kind)]
    /\ UNCHANGED <<journal, sealed_journals, active_memtable, approx_size,
                   immutable_memtables, segments, l0, queues, lru_list,
                   flush_semaphore, compaction_notified, accepted, rotate_calls,
                   flush_signals, aux>>

\* The value a remove writes: [].into()
EmptyValue == ""

insert(t, p, k, v) ==
    /\ th[t].pc = "idle"
    /\ seqno < MaxLsn
    /\ \/ JournalWritten(t, p, k, v, "Value")
       \/ JournalWriteFailed(t, p, k, v, "Value")

remove(t, p, k) ==
    /\ th[t].pc = "idle"
    /\ seqno < MaxLsn
    /\ \/ JournalWritten(t, p, k, EmptyValue, "Tombstone")
       \/ JournalWriteFailed(t, p, k, EmptyValue, "Tombstone")

\* Changed: the rotation is triggered at the limit already.
check_memtable_overflow_at_limit(t, size) ==
    IF size >= max_memtable_size
    THEN [th[t] EXCEPT !.pc = "rotate_ovf",
                       !.stack = <<Frame(th[t].part, "start", 0)>>]
    ELSE [th[t] EXCEPT !.pc = "soft"]

\* check_memtable_overflow(size), up to the call of rotate_memtable: where
\* the thread goes next.
check_memtable_overflow(t, size) ==
    IF size > max_memtable_size
    THEN [th[t] EXCEPT !.pc = "rotate_ovf",
                       !.stack = <<Frame(th[t].part, "start", 0)>>]
    ELSE [th[t] EXCEPT !.pc = "soft"]

\* Changed: the memtable entry is written under LSN 0 instead of the LSN
\* of the journal record.
tree_insert_lsn0(t) ==
    /\ th[t].pc = "mem"
    /\ LET p == th[t].part
           e == Entry(th[t].key, th[t].val, th[t].kind, 0)
           size == approx_size[p] + ItemSize(e)
       IN /\ active_memtable' = [active_memtable EXCEPT ![p] = @ \cup {e}]
          /\ approx_size' = [approx_size EXCEPT ![p] = size]
          /\ accepted' = [accepted EXCEPT ![p] = @ \cup {e}]
          /\ th' = [th EXCEPT ![t] = check_memtable_overflow(t, size)]
    /\ UNCHANGED <<seqno, journal, sealed_journals, immutable_memtables,
                   segments, l0, queues, lru_list, flush_semaphore,
                   compaction_notified, rotate_calls, io_errors,
                   flush_signals, aux>>

\* self.tree.insert / self.tree.remove with the LSN of the journal record,
\* then check_memtable_overflow with the size the tree returned.
tree_insert(t) ==
    /\ th[t].pc = "mem"
    /\ LET p == th[t].part
           e == Entry(th[t].key, th[t].val, th[t].kind, th[t].lsn)
           size == approx_size[p] + ItemSize(e)
       IN /\ active_memtable' = [active_memtable EXCEPT ![p] = @ \cup {e}]
          /\ approx_size' = [approx_size EXCEPT ![p] = size]
          /\ accepted' = [accepted EXCEPT ![p] = @ \cup {e}]
          /\ th' = [th EXCEPT ![t] = check_memtable_overflow(t, size)]
    /\ UNCHANGED <<seqno, journal, sealed_journals, immutable_memtables,
                   segments, l0, queues, lru_list, flush_semaphore,
                   compaction_notified, rotate_calls, io_errors,
                   flush_signals, aux>>

\* Changed: the loop runs while the count is above 21.
check_write_stall_above21(t) ==
    /\ th[t].pc = "stall"
    /\ IF l0[th[t].part] > L0HardLimit + 1
       THEN /\ compaction_notified' = compaction_notified \cup {th[t].part}
            /\ UNCHANGED th
       ELSE /\ th' = [th EXCEPT ![t].pc = "soft"]
            /\ UNCHANGED compaction_notified
    /\ UNCHANGED <<seqno, journal, sealed_journals, active_memtable,
                   approx_size, immutable_memtables, segments, l0, queues,
                   lru_list, flush_semaphore, accepted, rotate_calls, io_errors,
                   flush_signals, aux>>

\* check_write_stall: one round of the loop.
check_write_stall(t) ==
    /\ th[t].pc = "stall"
    /\ IF l0[th[t].part] > L0HardLimit
       THEN /\ compaction_notified' = compaction_notified \cup {th[t].part}
            /\ UNCHANGED th
       ELSE /\ th' = [th EXCEPT ![t].pc = "soft"]
            /\ UNCHANGED compaction_notified
    /\ UNCHANGED <<seqno, journal, sealed_journals, active_memtable,
                   approx_size, immutable_memtables, segments, l0, queues,
                   lru_list, flush_semaphore, accepted, rotate_calls, io_errors,
                   flush_signals, aux>>

\* The tail of check_memtable_overflow: the L0 soft stall, then Ok(()).
soft_stall(t) ==
    /\ th[t].pc = "soft"
    /\ compaction_notified' =
          IF l0[th[t].part] > L0SoftLimit
          THEN compaction_notified \cup {th[t].part}
          ELSE compaction_notified
    /\ th' = [th EXCEPT ![t] = IdleThread("Ok", th[t].kind)]
    /\ UNCHANGED <<seqno, journal, sealed_journals, active_memtable,
                   approx_size, immutable_memtables, segments, l0, queues,
                   lru_list, flush_semaphore, accepted, rotate_calls, io_errors,
                   flush_signals, aux>>

----------------------------------------------------------------------------
\* PartitionHandle::rotate_memtable

\* Frames that only wait for the call they made to return, to return
\* themselves, are left at once.
RECURSIVE Unwind(_)
Unwind(s) ==
    IF s # <<>> /\ s[Len(s)].pc = "ret" THEN Unwind(Pop(s)) ELSE s

\* The thread after the frames s of its rotate_memtable calls are what is
\* left: a nested call returns into the frame below it, the call made by
\* check_memtable_overflow goes on to check_write_stall, a direct call ends.
Resume(t, s) ==
    IF Unwind(s) # <<>> THEN [th[t] EXCEPT !.stack = Unwind(s)]
    ELSE IF th[t].pc = "rotate_call" THEN IdleThread("Ok", "Rotate")
    ELSE [th[t] EXCEPT !.pc = "stall", !.stack = <<>>]

\* Ok(()) from the top frame.
ReturnOk(t) == Resume(t, Pop(th[t].stack))

\* A direct call of rotate_memtable on partition p.
rotate_call(t, p) ==
    /\ th[t].pc = "idle"
    /\ rotate_calls < MaxRotateCalls
    /\ rotate_calls' = rotate_calls + 1
    /\ th' = [th EXCEPT ![t] =
                [IdleThread("none", "Rotate") EXCEPT
                    !.pc = "rotate_call", !.part = p,
                    !.stack = <<Frame(p, "start", 0)>>]]
    /\ UNCHANGED <<seqno, journal, sealed_journals, active_memtable,
                   approx_size, immutable_memtables, segments, l0, queues,
                   lru_list, flush_semaphore, compaction_notified, accepted,
                   io_errors,
                   flush_signals, aux>>

\* Tree::rotate_memtable finds nothing to seal when the active memtable is
\* empty (size == 0).
NothingToSeal(p) == approx_size[p] = 0

\* The seqno map: every partition whose active memtable has an LSN, then
\* the rotated partition with the LSN of the yanked memtable.
SeqnoMap(p, yanked, act) ==
    [q \in {x \in Partitions : act[x] # {}} \cup {p} |->
        IF q = p THEN get_lsn(yanked) ELSE get_lsn(act[q])]

\* The rotation found no memtable to seal: Ok(()) with the full lock dropped.
rotate_nothing(t) ==
    /\ th' = [th EXCEPT ![t] = ReturnOk(t)]
    /\ UNCHANGED <<seqno, journal, sealed_journals, active_memtable,
                   approx_size, immutable_memtables, segments, l0, queues,
                   lru_list, flush_semaphore, compaction_notified, accepted, rotate_calls, io_errors,
                   flush_signals, aux>>

\* Changed: the yanked memtable is handed to the flush manager only, reads
\* do not see it until it is flushed.
rotate_sealing_unread(t) ==
    LET p == Top(t).part
        yanked == active_memtable[p]
        act == [active_memtable EXCEPT ![p] = {}]
        sealed == Append(sealed_journals,
                         [recs |-> journal, map |-> SeqnoMap(p, yanked, act)])
    IN /\ active_memtable' = act
       /\ approx_size' = [approx_size EXCEPT ![p] = 0]
       /\ sealed_journals' = sealed
       /\ journal' = {}
       /\ queues' = [queues EXCEPT ![p] = Append(@, yanked)]
       /\ th' = [th EXCEPT ![t].stack =
                    SetTop(@, Frame(p, "notify", DiskSpaceOf({}, sealed)))]
       /\ flush_signals' = [flush_signals EXCEPT !.enqueued = @ + 1]
       /\ UNCHANGED <<seqno, immutable_memtables, segments, l0, lru_list,
                      flush_semaphore, compaction_notified, accepted,
                      rotate_calls, io_errors, aux>>

\* The section of rotate_memtable that runs under the journal full lock:
\* seal the memtable, build the seqno map, rotate the journal, enqueue the
\* flush task, measure the journal size.
rotate_sealing(t) ==
    LET p == Top(t).part
        yanked == active_memtable[p]
        act == [active_memtable EXCEPT ![p] = {}]
        sealed == Append(sealed_journals,
                         [recs |-> journal, map |-> SeqnoMap(p, yanked, act)])
    IN /\ active_memtable' = act
       /\ approx_size' = [approx_size EXCEPT ![p] = 0]
       /\ immutable_memtables' = [immutable_memtables EXCEPT ![p] = @ \cup {yanked}]
       /\ sealed_journals' = sealed
       /\ journal' = {}
       /\ queues' = [queues EXCEPT ![p] = Append(@, yanked)]
       /\ th' = [th EXCEPT ![t].stack =
                    SetTop(@, Frame(p, "notify", DiskSpaceOf({}, sealed)))]
       /\ flush_signals' = [flush_signals EXCEPT !.enqueued = @ + 1]
       /\ UNCHANGED <<seqno, segments, l0, lru_list, flush_semaphore,
                      compaction_notified, accepted, rotate_calls, io_errors, aux>>

\* Changed: the rotation goes on when the tree had no memtable to seal.
rotate_memtable_begin_always(t) ==
    /\ InFrame(t, "start")
    /\ rotate_sealing(t)

rotate_memtable_begin(t) ==
    /\ InFrame(t, "start")
    /\ IF NothingToSeal(Top(t).part) THEN rotate_nothing(t) ELSE rotate_sealing(t)

\* The least recently used partition is taken out and not put back.
lru_after_pick_dropped(items) ==
    IF items = <<>> THEN items ELSE Tail(items)

\* LruList::get_least_recently_used: the list after the call.
lru_after_pick(items) ==
    IF items = <<>> THEN items ELSE Append(Tail(items), Head(items))

\* The frames of thread t after its top frame became f and called
\* rotate_memtable on the least recently used partition, if there is one.
CallLeastRecentlyUsed(t, f) ==
    IF lru_list = <<>> THEN SetTop(th[t].stack, f)
    ELSE Append(SetTop(th[t].stack, f), Frame(Head(lru_list), "start", 0))

\* Whether the rotation runs the proactive drain.
Drains(jsize) == jsize > DrainThreshold

\* Changed: the write halt is entered only above twice the limit.
EntersHalt_late(jsize) == jsize > 2 * max_journaling_size_in_bytes

\* Whether the rotation enters the write halt.
EntersHalt(jsize) == jsize > max_journaling_size_in_bytes

\* The frame of a rotation once it is past the proactive drain: in the
\* write halt, or about to return.
PastDrain(f) ==
    Frame(f.part, IF EntersHalt(f.jsize) THEN "halt" ELSE "ret", 0)

\* Changed: the rotation returns to its caller's business without waking
\* the flush worker.
rotate_notify_silent(t) ==
    /\ InFrame(t, "notify")
    /\ th' = [th EXCEPT ![t].stack = SetTop(@, [Top(t) EXCEPT !.pc = "drain"])]
    /\ UNCHANGED <<seqno, journal, sealed_journals, active_memtable,
                   approx_size, immutable_memtables, segments, l0, queues,
                   lru_list, flush_semaphore, compaction_notified, accepted,
                   rotate_calls, io_errors, flush_signals, aux>>

\* After the locks are dropped: release the flush semaphore.
rotate_notify(t) ==
    /\ InFrame(t, "notify")
    /\ flush_semaphore' = flush_semaphore + 1
    /\ th' = [th EXCEPT ![t].stack = SetTop(@, [Top(t) EXCEPT !.pc = "drain"])]
    /\ flush_signals' = [flush_signals EXCEPT !.released = @ + 1]
    /\ UNCHANGED <<seqno, journal, sealed_journals, active_memtable,
                   approx_size, immutable_memtables, segments, l0, queues,
                   lru_list, compaction_notified, accepted, rotate_calls,
                   io_errors, aux>>

\* The proactive drain when the measured journal size is above the
\* threshold, then into the write halt or out of the call.
proactive_drain(t) ==
    /\ InFrame(t, "drain")
    /\ IF Drains(Top(t).jsize)
       THEN /\ lru_list = <<>> \/ Len(th[t].stack) < MaxDepth
            /\ lru_list' = lru_after_pick(lru_list)
            /\ th' = [th EXCEPT ![t] =
                        Resume(t, CallLeastRecentlyUsed(t, PastDrain(Top(t))))]
       ELSE /\ th' = [th EXCEPT ![t] =
                        Resume(t, SetTop(th[t].stack, PastDrain(Top(t))))]
            /\ UNCHANGED lru_list
    /\ UNCHANGED <<seqno, journal, sealed_journals, active_memtable,
                   approx_size, immutable_memtables, segments, l0, queues,
                   flush_semaphore, compaction_notified, accepted,
                   rotate_calls, io_errors,
                   flush_signals, aux>>

\* Changed: the halt sleeps and measures once, and returns whatever the
\* measurement was.
EndsHalt_once(bytes) == bytes >= 0

\* Whether a round of the write halt ends it, given the bytes it measured.
EndsHalt(bytes) == bytes <= max_journaling_size_in_bytes

\* One round of the write halt: sleep, measure, leave or go on to rotate
\* the least recently used partition.
write_halt_round(t) ==
    /\ InFrame(t, "halt")
    /\ th' = [th EXCEPT ![t] =
                IF EndsHalt(disk_space_used) THEN ReturnOk(t)
                ELSE [th[t] EXCEPT !.stack =
                        SetTop(@, [Top(t) EXCEPT !.pc = "halt_pick"])]]
    /\ UNCHANGED <<seqno, journal, sealed_journals, active_memtable,
                   approx_size, immutable_memtables, segments, l0, queues,
                   lru_list, flush_semaphore, compaction_notified, accepted,
                   rotate_calls, io_errors,
                   flush_signals, aux>>

\* The rest of the round: rotate the least recently used partition, if the
\* flush manager has one, and loop.
write_halt_rotate(t) ==
    /\ InFrame(t, "halt_pick")
    /\ lru_list = <<>> \/ Len(th[t].stack) < MaxDepth
    /\ lru_list' = lru_after_pick(lru_list)
    /\ th' = [th EXCEPT ![t].stack =
                CallLeastRecentlyUsed(t, [Top(t) EXCEPT !.pc = "halt"])]
    /\ UNCHANGED <<seqno, journal, sealed_journals, active_memtable,
                   approx_size, immutable_memtables, segments, l0, queues,
                   flush_semaphore, compaction_notified, accepted,
                   rotate_calls, io_errors,
                   flush_signals, aux>>

----------------------------------------------------------------------------
\* FlushManager

\* The refreshed partition is put at the front of the list.
lru_refresh_front(items, p) == <<p>> \o SelectSeq(items, LAMBDA x : x # p)

\* LruList::refresh
lru_refresh(items, p) == Append(SelectSeq(items, LAMBDA x : x # p), p)

\* The orders in which a HashMap of the partitions may be walked.
Orders ==
    {o \in [1..Cardinality(Partitions) -> Partitions] :
        \A i, j \in DOMAIN o : i # j => o[i] # o[j]}

\* The map collect_tasks fills: entry(partition).or_default().push(item).
push_collected(c, p, item) ==
    IF p \in DOMAIN c THEN [c EXCEPT ![p] = Append(@, item)]
    ELSE c @@ (p :> <<item>>)

\* Changed: the limit is tested after the item is pushed, so the walk
\* stops one item late.
RECURSIVE collect_loop_late(_, _, _, _, _, _)
collect_loop_late(qs, o, i, cnt, limit, c) ==
    IF o = <<>> THEN c
    ELSE IF i > Len(qs[Head(o)])
         THEN collect_loop_late(qs, Tail(o), 1, cnt, limit, c)
    ELSE IF cnt > limit THEN c
    ELSE collect_loop_late(qs, o, i + 1, cnt + 1, limit,
                           push_collected(c, Head(o), qs[Head(o)][i]))

\* The loops of collect_tasks: the queues qs are walked in order o, i is
\* the position in the queue of the first partition of o, cnt the number
\* of items collected so far into c.
RECURSIVE collect_loop(_, _, _, _, _, _)
collect_loop(qs, o, i, cnt, limit, c) ==
    IF o = <<>> THEN c
    ELSE IF i > Len(qs[Head(o)])
         THEN collect_loop(qs, Tail(o), 1, cnt, limit, c)
    ELSE IF cnt = limit THEN c
    ELSE collect_loop(qs, o, i + 1, cnt + 1, limit,
                      push_collected(c, Head(o), qs[Head(o)][i]))

\* FlushManager::collect_tasks: the tasks collected per partition when the
\* queues are walked in order o.
collect_tasks(qs, o, limit) == collect_loop(qs, o, 1, 0, limit, <<>>)

\* The number of tasks of partition p in what collect_tasks returned.
collected_of(c, p) == IF p \in DOMAIN c THEN c[p] ELSE <<>>

\* queue.remove(0), cnt times.
RECURSIVE remove_front(_, _)
remove_front(queue, cnt) ==
    IF cnt = 0 THEN queue ELSE remove_front(Tail(queue), cnt - 1)

\* FlushManager::dequeue_tasks: the queues and the LRU list after the call.
dequeue_queues(qs, p, cnt) == [qs EXCEPT ![p] = remove_front(@, cnt)]

\* Changed: the partition is refreshed only when tasks stay behind in its
\* queue.
dequeue_lru_if_more(qs, items, p) ==
    IF Len(qs[p]) > 1 THEN lru_refresh(items, p) ELSE items

\* The refresh of dequeue_tasks: `if let Some(task) = queue.first()`, read
\* before the tasks are removed.
dequeue_lru(qs, items, p) == IF qs[p] # <<>> THEN lru_refresh(items, p) ELSE items

----------------------------------------------------------------------------
\* JournalManager: what a completed flush does to the sealed journals

\* Partition p has everything up to lsn in segments: p leaves the seqno map
\* of every sealed journal that recorded it at or below lsn, and a journal
\* whose map is empty is deleted.
compact_partition(js, p, lsn) ==
    LET upd(j) == IF p \in DOMAIN j.map /\ j.map[p] <= lsn
                  THEN [recs |-> j.recs,
                        map |-> [q \in DOMAIN j.map \ {p} |-> j.map[q]]]
                  ELSE j
        all == [i \in 1..Len(js) |-> upd(js[i])]
    IN SelectSeq(all, LAMBDA j : DOMAIN j.map # {})

RECURSIVE compact_all(_, _, _)
compact_all(js, ps, segs) ==
    IF ps = {} THEN js
    ELSE LET p == CHOOSE x \in ps : TRUE
         IN compact_all(compact_partition(js, p, get_lsn(segs[p])), ps \ {p}, segs)

----------------------------------------------------------------------------
\* Flush worker and compaction

\* Tasks one wake-up of the flush worker collects.
FlushLimit == 2

RECURSIVE dequeue_all_queues(_, _, _)
dequeue_all_queues(qs, o, got) ==
    IF o = <<>> THEN qs
    ELSE dequeue_all_queues(
            IF got[Head(o)] > 0 THEN dequeue_queues(qs, Head(o), got[Head(o)]) ELSE qs,
            Tail(o), got)

RECURSIVE dequeue_all_lru(_, _, _, _)
dequeue_all_lru(qs, items, o, got) ==
    IF o = <<>> THEN items
    ELSE dequeue_all_lru(
            qs,
            IF got[Head(o)] > 0 THEN dequeue_lru(qs, items, Head(o)) ELSE items,
            Tail(o), got)

\* One wake-up of the flush worker: collect, write the sealed memtables out
\* as L0 segments, register them and drop the memtables, notify compaction,
\* compact the journals, dequeue.
flush_worker(o, d) ==
    /\ flush_semaphore > 0
    /\ flush_semaphore' = flush_semaphore - 1
    /\ LET taken == collect_tasks(queues, o, FlushLimit)
           got == [p \in Partitions |-> Len(collected_of(taken, p))]
           tasks(p) == Range(collected_of(taken, p))
           flushed == {p \in Partitions : got[p] > 0}
           segs == [p \in Partitions |-> segments[p] \cup UNION tasks(p)]
       IN /\ segments' = segs
          /\ l0' = [p \in Partitions |-> l0[p] + got[p]]
          /\ immutable_memtables' =
                [p \in Partitions |-> immutable_memtables[p] \ tasks(p)]
          /\ compaction_notified' = compaction_notified \cup flushed
          /\ sealed_journals' = compact_all(sealed_journals, flushed, segs)
          /\ queues' = dequeue_all_queues(queues, d, got)
          /\ lru_list' = dequeue_all_lru(queues, lru_list, d, got)
    /\ UNCHANGED <<seqno, journal, active_memtable, approx_size, th, accepted, rotate_calls, io_errors,
                   flush_signals, aux>>

\* A compaction worker takes a notified partition and clears its L0.
compaction_worker(p) ==
    /\ p \in compaction_notified
    /\ compaction_notified' = compaction_notified \ {p}
    /\ l0' = [l0 EXCEPT ![p] = 0]
    /\ UNCHANGED <<seqno, journal, sealed_journals, active_memtable,
                   approx_size, immutable_memtables, segments, queues,
                   lru_list, flush_semaphore, th, accepted, rotate_calls, io_errors,
                   flush_signals, aux>>

----------------------------------------------------------------------------
\* Iteration: PartitionHandle::iter, forward and reversed, and len

KeyOrder == <<"a", "b">>

\* The visible keys of a set of entries, in key order.
VisibleSeq(S) == SelectSeq(KeyOrder, LAMBDA k : k \in VisibleKeys(S))

iter(p) == VisibleSeq(TreeEntries(p))

Reverse(s) == [i \in 1..Len(s) |-> s[Len(s) + 1 - i]]

iter_rev(p) == Reverse(iter(p))

\* PartitionHandle::len: the number of items the iteration yields.
len(p) == Len(iter(p))

----------------------------------------------------------------------------
\* Close and recovery

ClosedThread == [IdleThread("none", "-") EXCEPT !.pc = "closed"]
RecoveredThread == [IdleThread("none", "-") EXCEPT !.pc = "recovered"]

Recovered == \A t \in Threads : th[t].pc = "recovered"

\* What the records of a journal replay to.
PartitionsIn(recs) == {r.part : r \in recs}
EntriesOf(recs, p) ==
    {Entry(r.key, r.val, r.kind, r.lsn) : r \in {x \in recs : x.part = p}}
RecoveredMap(recs) ==
    [p \in PartitionsIn(recs) |-> get_lsn(EntriesOf(recs, p))]

\* The sealed memtables of partition p that replaying the sealed journals
\* js produces, oldest journal first.
RECURSIVE RecoveredQueue(_, _)
RecoveredQueue(js, p) ==
    IF js = <<>> THEN <<>>
    ELSE (IF p \in PartitionsIn(Head(js).recs)
          THEN <<EntriesOf(Head(js).recs, p)>> ELSE <<>>)
         \o RecoveredQueue(Tail(js), p)

\* The keyspace is dropped once every call has returned: what is in memory
\* is gone, the journals and the segments stay on disk.
close ==
    /\ \A t \in Threads : th[t].pc \in {"idle", "recovered"}
    /\ th' = [t \in Threads |-> ClosedThread]
    /\ active_memtable' = [p \in Partitions |-> {}]
    /\ approx_size' = [p \in Partitions |-> 0]
    /\ immutable_memtables' = [p \in Partitions |-> {}]
    /\ queues' = [p \in Partitions |-> <<>>]
    /\ lru_list' = <<>>
    /\ flush_semaphore' = 0
    /\ compaction_notified' = {}
    /\ UNCHANGED <<seqno, journal, sealed_journals, segments, l0,
                   rotate_calls, io_errors, accepted,
                   flush_signals, aux>>

\* Keyspace open on an existing directory: replay every sealed journal into
\* sealed memtables with a flush task each, replay the active journal into
\* the active memtables, set the counter past the largest LSN seen.
reopen ==
    /\ \A t \in Threads : th[t].pc = "closed"
    /\ th' = [t \in Threads |-> RecoveredThread]
    /\ sealed_journals' =
          [i \in 1..Len(sealed_journals) |->
              [recs |-> sealed_journals[i].recs,
               map |-> RecoveredMap(sealed_journals[i].recs)]]
    /\ queues' = [p \in Partitions |-> RecoveredQueue(sealed_journals, p)]
    /\ immutable_memtables' =
          [p \in Partitions |-> Range(RecoveredQueue(sealed_journals, p))]
    /\ active_memtable' = [p \in Partitions |-> EntriesOf(journal, p)]
    /\ approx_size' =
          [p \in Partitions |-> JournalBytes({r \in journal : r.part = p})]
    /\ flush_semaphore' = Len(sealed_journals)
    /\ LET seen == {r.lsn : r \in journal}
                   \cup UNION {{r.lsn : r \in sealed_journals[i].recs} :
                                  i \in 1..Len(sealed_journals)}
                   \cup UNION {{e.lsn : e \in segments[p]} : p \in Partitions}
       IN seqno' = IF seen = {} THEN 0 ELSE MaxOf(seen) + 1
    /\ lru_list' = <<>>
    /\ compaction_notified' = {}
    /\ UNCHANGED <<journal, segments, l0, rotate_calls, io_errors, accepted,
                   flush_signals, aux>>

----------------------------------------------------------------------------
\* Specifications

\* The steps of a call that thread t has begun.
Step(t) ==
    \/ tree_insert(t)
    \/ rotate_memtable_begin(t)
    \/ rotate_notify(t)
    \/ proactive_drain(t)
    \/ write_halt_round(t)
    \/ write_halt_rotate(t)
    \/ check_write_stall(t)
    \/ soft_stall(t)

Flush == \E o \in Orders, d \in Orders : flush_worker(o, d)

\* Concurrent callers: one thread inserts a key while the other removes
\* it, and both rotate memtables.
Inserter == "t1"
Remover == "t2"

Next ==
    \/ \E p \in Partitions : insert(Inserter, p, "a", "v1")
    \/ \E p \in Partitions : remove(Remover, p, "a")
    \/ \E t \in Threads, p \in Partitions : rotate_call(t, p)
    \/ \E t \in Threads : Step(t)
    \/ Flush

Spec == Init /\ [][Next]_vars

\* One writer, every key and value, the flush worker in the background.
Writer == "t1"

NextSeq ==
    \/ \E p \in Partitions, k \in Keys, v \in Values : insert(Writer, p, k, v)
    \/ \E p \in Partitions, k \in Keys : remove(Writer, p, k)
    \/ \E p \in Partitions : rotate_call(Writer, p)
    \/ Step(Writer)
    \/ Flush

SpecSeq == Init /\ [][NextSeq]_vars

\* The writer's thread keeps running the call it is in, and the flush
\* worker runs whenever the flush semaphore has a permit.
SpecSeqFair == SpecSeq /\ WF_vars(Step(Writer)) /\ WF_vars(Flush)

\* The write path and the rotation at the level of their locks: every
\* acquisition is a step of its own.

Lock(name, of) == [name |-> name, of |-> of]
JournalFull == Lock("journal_full", "-")
PartitionsRegistry == Lock("partitions", "-")
JournalManagerLock == Lock("journal_manager", "-")
FlushManagerLock == Lock("flush_manager", "-")
TreeRead(p) == Lock("tree_read", p)
TreeWrite(p) == Lock("tree_write", p)
ShardWriter(s) == Lock("shard", s)

\* The level of a lock in the lock hierarchy.
LockLevel(l) ==
    CASE l.name = "journal_full" -> 1
      [] l.name = "partitions" -> 2
      [] l.name = "journal_manager" -> 3
      [] l.name = "flush_manager" -> 4
      [] l.name \in {"tree_read", "tree_write"} -> 5
      [] l.name = "shard" -> 6

Holds(t, l) == \E i \in DOMAIN held[t] : held[t][i] = l
Free(l) == \A t \in Threads : ~Holds(t, l)
Release(t, l) == SelectSeq(held[t], LAMBDA x : x # l)

\* A shard can be taken when no writer has it and no rotation has the
\* full lock; the full lock needs every shard.
ShardFree(s) == Free(ShardWriter(s)) /\ Free(JournalFull)
AllShardsFree == Free(JournalFull) /\ \A s \in Shards : Free(ShardWriter(s))

\* The tree lock is a readers-writer lock: a writer of entries reads the
\* tree, a rotation writes it.
TreeReadable(p) == Free(TreeWrite(p))

\* Changed: the rotation does not wait for the writers in the tree.
TreeWritable_unlocked(p) == Free(TreeWrite(p))

TreeWritable(p) == Free(TreeWrite(p)) /\ Free(TreeRead(p))

\* What the lock-level steps of the write path leave alone.
outside_write ==
    <<sealed_journals, immutable_memtables, segments, l0, queues, lru_list,
      flush_semaphore, compaction_notified, rotate_calls, flush_signals,
      collected, fm_call, clock, sealed_ids, workers, written>>

\* Changed: the call picks its shard and goes on without taking the
\* shard's writer lock.
get_writer_late(t, p, k, v, kind, s) ==
    /\ th[t].pc = "idle"
    /\ seqno < MaxLsn
    /\ th' = [th EXCEPT ![t] =
                [IdleThread("none", kind) EXCEPT
                    !.pc = "shard", !.part = p, !.key = k, !.val = v,
                    !.over = disk_space_used > max_journaling_size_in_bytes]]
    /\ local' = [local EXCEPT ![t] = [NoLocals EXCEPT !.shard = s]]
    /\ UNCHANGED <<seqno, journal, active_memtable, approx_size, accepted,
                   io_errors, held, shards, outside_write>>

\* self.journal.get_writer(): the call holds the writer lock of a shard.
get_writer(t, p, k, v, kind, s) ==
    /\ th[t].pc = "idle"
    /\ seqno < MaxLsn
    /\ ShardFree(s)
    /\ held' = [held EXCEPT ![t] = Append(@, ShardWriter(s))]
    /\ th' = [th EXCEPT ![t] =
                [IdleThread("none", kind) EXCEPT
                    !.pc = "shard", !.part = p, !.key = k, !.val = v,
                    !.over = disk_space_used > max_journaling_size_in_bytes]]
    /\ local' = [local EXCEPT ![t] = [NoLocals EXCEPT !.shard = s]]
    /\ UNCHANGED <<seqno, journal, active_memtable, approx_size, accepted,
                   io_errors, shards, outside_write>>

\* self.seqno.next()
seqno_next(t) ==
    /\ th[t].pc = "shard"
    /\ seqno' = seqno + 1
    /\ th' = [th EXCEPT ![t].pc = "lsn", ![t].lsn = seqno]
    /\ UNCHANGED <<journal, active_memtable, approx_size, accepted,
                   io_errors, held, shards, local, outside_write>>

\* shard.writer.write(item, seqno)?: the record is in the shard, or the
\* call returns the error and drops the shard.
shard_write(t) ==
    /\ th[t].pc = "lsn"
    /\ \/ /\ shards' = [shards EXCEPT ![local[t].shard] = Append(@, th[t].lsn)]
          /\ journal' = journal \cup
                {Record(th[t].part,
                        Entry(th[t].key, th[t].val, th[t].kind, th[t].lsn))}
          /\ th' = [th EXCEPT ![t].pc = "written"]
          /\ UNCHANGED <<held, io_errors>>
       \/ /\ io_errors' = io_errors + 1
          /\ held' = [held EXCEPT ![t] = Release(t, ShardWriter(local[t].shard))]
          /\ th' = [th EXCEPT ![t] = IdleThread("IoError", th[t].kind)]
          /\ UNCHANGED <<shards, journal>>
    /\ UNCHANGED <<seqno, active_memtable, approx_size, accepted, local,
                   outside_write>>

\* drop(shard)
drop_shard(t) ==
    /\ th[t].pc = "written"
    /\ held' = [held EXCEPT ![t] = Release(t, ShardWriter(local[t].shard))]
    /\ th' = [th EXCEPT ![t].pc = "mem"]
    /\ UNCHANGED <<seqno, journal, active_memtable, approx_size, accepted,
                   io_errors, shards, local, outside_write>>

\* The two effects of the tree's insert on the active memtable, which it
\* makes one after the other in an order src does not show.
Halves == {"entry", "size"}

tree_insert_half(t, half) ==
    LET p == th[t].part
        e == Entry(th[t].key, th[t].val, th[t].kind, th[t].lsn)
    IN IF half = "entry"
       THEN /\ active_memtable' = [active_memtable EXCEPT ![p] = @ \cup {e}]
            /\ accepted' = [accepted EXCEPT ![p] = @ \cup {e}]
            /\ UNCHANGED <<approx_size, local>>
       ELSE /\ approx_size' = [approx_size EXCEPT ![p] = @ + ItemSize(e)]
            /\ local' = [local EXCEPT ![t].size = approx_size[p] + ItemSize(e)]
            /\ UNCHANGED <<active_memtable, accepted>>

\* self.tree.insert / self.tree.remove, first half: the tree lock is taken
\* for reading and one of the two effects is made.
tree_insert_first(t, half) ==
    /\ th[t].pc = "mem"
    /\ TreeReadable(th[t].part)
    /\ held' = [held EXCEPT ![t] = Append(@, TreeRead(th[t].part))]
    /\ tree_insert_half(t, half)
    /\ th' = [th EXCEPT ![t].pc = half]
    /\ UNCHANGED <<seqno, journal, io_errors, shards, outside_write>>

\* Second half: the other effect, the tree lock is dropped, and
\* check_memtable_overflow gets the size the tree returned.
tree_insert_second(t) ==
    /\ th[t].pc \in Halves
    /\ LET half == CHOOSE h \in Halves : h # th[t].pc
           size == IF half = "size" THEN local'[t].size ELSE local[t].size
       IN /\ tree_insert_half(t, half)
          /\ th' = [th EXCEPT ![t] = check_memtable_overflow(t, size)]
    /\ held' = [held EXCEPT ![t] = Release(t, TreeRead(th[t].part))]
    /\ UNCHANGED <<seqno, journal, io_errors, shards, outside_write>>

\* What the lock-level steps of the rotation leave alone.
outside_rotation ==
    <<seqno, segments, l0, lru_list, flush_semaphore, compaction_notified,
      accepted, rotate_calls, io_errors, collected, fm_call, clock, sealed_ids,
      workers, written>>

\* The top frame of thread t moves on to pc.
Advance(t, pc) == [th EXCEPT ![t].stack = SetTop(@, [Top(t) EXCEPT !.pc = pc])]

\* self.journal.shards.full_lock()
rot_full_lock(t) ==
    /\ InFrame(t, "start")
    /\ AllShardsFree
    /\ held' = [held EXCEPT ![t] = Append(@, JournalFull)]
    /\ th' = Advance(t, "full")
    /\ UNCHANGED <<journal, sealed_journals, active_memtable, approx_size,
                   immutable_memtables, queues, flush_signals, shards, local,
                   outside_rotation>>

\* Tree::rotate_memtable: the tree lock is taken for writing.
rot_tree_lock(t) ==
    /\ InFrame(t, "full")
    /\ TreeWritable(Top(t).part)
    /\ held' = [held EXCEPT ![t] = Append(@, TreeWrite(Top(t).part))]
    /\ th' = Advance(t, "tree")
    /\ UNCHANGED <<journal, sealed_journals, active_memtable, approx_size,
                   immutable_memtables, queues, flush_signals, shards, local,
                   outside_rotation>>

\* Tree::rotate_memtable under the tree lock: nothing to seal and the
\* rotation returns Ok(()), or the active memtable is swapped for an empty
\* one and joins the immutable memtables; the tree lock is dropped.
rot_tree_rotate(t) ==
    /\ InFrame(t, "tree")
    /\ LET p == Top(t).part
       IN IF NothingToSeal(p)
          THEN /\ held' = [held EXCEPT ![t] = <<>>]
               /\ th' = [th EXCEPT ![t] = ReturnOk(t)]
               /\ UNCHANGED <<active_memtable, approx_size,
                              immutable_memtables, local>>
          ELSE /\ held' = [held EXCEPT ![t] = Release(t, TreeWrite(p))]
               /\ active_memtable' = [active_memtable EXCEPT ![p] = {}]
               /\ approx_size' = [approx_size EXCEPT ![p] = 0]
               /\ immutable_memtables' =
                     [immutable_memtables EXCEPT ![p] = @ \cup {active_memtable[p]}]
               /\ local' = [local EXCEPT ![t] =
                              [NoLocals EXCEPT !.yanked = active_memtable[p]]]
               /\ th' = Advance(t, "yanked")
    /\ UNCHANGED <<journal, sealed_journals, queues, flush_signals, shards,
                   outside_rotation>>

\* self.journal_manager.write()
rot_journal_manager_lock(t) ==
    /\ InFrame(t, "yanked")
    /\ Free(JournalManagerLock)
    /\ held' = [held EXCEPT ![t] = Append(@, JournalManagerLock)]
    /\ th' = Advance(t, "journal_manager")
    /\ UNCHANGED <<journal, sealed_journals, active_memtable, approx_size,
                   immutable_memtables, queues, flush_signals, shards, local,
                   outside_rotation>>

\* self.partitions.write()
rot_partitions_lock(t) ==
    /\ InFrame(t, "journal_manager")
    /\ Free(PartitionsRegistry)
    /\ held' = [held EXCEPT ![t] = Append(@, PartitionsRegistry)]
    /\ th' = Advance(t, "partitions")
    /\ UNCHANGED <<journal, sealed_journals, active_memtable, approx_size,
                   immutable_memtables, queues, flush_signals, shards, local,
                   outside_rotation>>

\* The seqno map is built from the memtables as they are now; the
\* partitions registry is dropped at the end of the block.
rot_seqno_map(t) ==
    /\ InFrame(t, "partitions")
    /\ local' = [local EXCEPT ![t].map =
                    SeqnoMap(Top(t).part, local[t].yanked, active_memtable)]
    /\ held' = [held EXCEPT ![t] = Release(t, PartitionsRegistry)]
    /\ th' = Advance(t, "mapped")
    /\ UNCHANGED <<journal, sealed_journals, active_memtable, approx_size,
                   immutable_memtables, queues, flush_signals, shards,
                   outside_rotation>>

\* What the lock-level steps of the rotation leave alone, but for the
\* count of failed calls.
outside_rotation_io ==
    <<seqno, segments, l0, lru_list, flush_semaphore, compaction_notified,
      accepted, rotate_calls, collected, fm_call, clock, sealed_ids, workers,
      written>>

\* journal_manager.rotate_journal(&mut journal, seqno_map)?: the journal
\* is sealed with the map, or the call fails and rotate_memtable returns
\* the error to the writer, dropping the guards it holds.
rot_rotate_journal(t) ==
    /\ InFrame(t, "mapped")
    /\ \/ /\ sealed_journals' =
                Append(sealed_journals, [recs |-> journal, map |-> local[t].map])
          /\ journal' = {}
          /\ shards' = [s \in Shards |-> <<>>]
          /\ th' = Advance(t, "rotated")
          /\ UNCHANGED <<held, local, io_errors>>
       \/ /\ io_errors' = io_errors + 1
          /\ held' = [held EXCEPT ![t] = <<>>]
          /\ local' = [local EXCEPT ![t] = NoLocals]
          /\ th' = [th EXCEPT ![t] = IdleThread("IoError", th[t].kind)]
          /\ UNCHANGED <<sealed_journals, journal, shards>>
    /\ UNCHANGED <<active_memtable, approx_size, immutable_memtables, queues,
                   flush_signals, outside_rotation_io>>

\* self.flush_manager.write()
rot_flush_manager_lock(t) ==
    /\ InFrame(t, "rotated")
    /\ Free(FlushManagerLock)
    /\ held' = [held EXCEPT ![t] = Append(@, FlushManagerLock)]
    /\ th' = Advance(t, "flush_manager")
    /\ UNCHANGED <<journal, sealed_journals, active_memtable, approx_size,
                   immutable_memtables, queues, flush_signals, shards, local,
                   outside_rotation>>

\* Changed: the journal full lock is kept when the rotation goes on to
\* notify, drain and halt.
rot_enqueue_keeps_journal(t) ==
    /\ InFrame(t, "flush_manager")
    /\ queues' = [queues EXCEPT ![Top(t).part] = Append(@, local[t].yanked)]
    /\ flush_signals' = [flush_signals EXCEPT !.enqueued = @ + 1]
    /\ held' = [held EXCEPT ![t] = <<JournalFull>>]
    /\ local' = [local EXCEPT ![t] = NoLocals]
    /\ th' = [th EXCEPT ![t].stack =
                SetTop(@, Frame(Top(t).part, "notify", disk_space_used))]
    /\ UNCHANGED <<journal, sealed_journals, active_memtable, approx_size,
                   immutable_memtables, shards, outside_rotation>>

\* enqueue_task, disk_space_used, and the three locks are dropped.
rot_enqueue(t) ==
    /\ InFrame(t, "flush_manager")
    /\ queues' = [queues EXCEPT ![Top(t).part] = Append(@, local[t].yanked)]
    /\ flush_signals' = [flush_signals EXCEPT !.enqueued = @ + 1]
    /\ held' = [held EXCEPT ![t] = <<>>]
    /\ local' = [local EXCEPT ![t] = NoLocals]
    /\ th' = [th EXCEPT ![t].stack =
                SetTop(@, Frame(Top(t).part, "notify", disk_space_used))]
    /\ UNCHANGED <<journal, sealed_journals, active_memtable, approx_size,
                   immutable_memtables, shards, outside_rotation>>

\* The calls that take the flush manager lock for one statement, and the
\* flush worker, which takes the flush manager's, the journal manager's and
\* the trees' locks, wait for them to be free.
locked_drain(t) == Free(FlushManagerLock) /\ proactive_drain(t)
locked_halt_rotate(t) == Free(FlushManagerLock) /\ write_halt_rotate(t)
locked_halt_round(t) == Free(JournalManagerLock) /\ write_halt_round(t)
locked_flush ==
    /\ Free(FlushManagerLock)
    /\ Free(JournalManagerLock)
    /\ \A p \in Partitions : TreeWritable(p)
    /\ Flush

StepLocks(t) ==
    \/ seqno_next(t)
    \/ shard_write(t)
    \/ drop_shard(t)
    \/ \E half \in Halves : tree_insert_first(t, half)
    \/ tree_insert_second(t)
    \/ rot_full_lock(t)
    \/ rot_tree_lock(t)
    \/ rot_tree_rotate(t)
    \/ rot_journal_manager_lock(t)
    \/ rot_partitions_lock(t)
    \/ rot_seqno_map(t)
    \/ rot_rotate_journal(t)
    \/ rot_flush_manager_lock(t)
    \/ rot_enqueue(t)
    \/ rotate_notify(t)
    \/ locked_drain(t)
    \/ locked_halt_round(t)
    \/ locked_halt_rotate(t)
    \/ check_write_stall(t)
    \/ soft_stall(t)

NextLocks ==
    \/ \E p \in Partitions, s \in Shards :
          get_writer(Inserter, p, "a", "v1", "Value", s)
    \/ \E p \in Partitions, s \in Shards :
          get_writer(Remover, p, "a", EmptyValue, "Tombstone", s)
    \/ \E t \in Threads : StepLocks(t)
    \/ locked_flush

SpecLocks == Init /\ [][NextLocks]_vars

\* The flush manager alone, driven by every call of its interface.

\* The variables the flush manager does not touch.
outside_flush_manager ==
    <<seqno, journal, sealed_journals, active_memtable, approx_size,
      immutable_memtables, segments, l0, flush_semaphore,
      compaction_notified, th, rotate_calls, io_errors, accepted,
      flush_signals, held, shards, local, workers, written>>

\* FlushManager::enqueue_task; the tasks are numbered as they are made.
enqueue_task(p) ==
    /\ fm_call.made < MaxTasks
    /\ queues' = [queues EXCEPT ![p] = Append(@, fm_call.made + 1)]
    /\ fm_call' = [op |-> "enqueue", part |-> p, cnt |-> 1,
                   made |-> fm_call.made + 1, run |-> <<>>, start |-> <<>>]
    /\ UNCHANGED <<lru_list, collected, clock, sealed_ids, outside_flush_manager>>

\* A call of collect_tasks(limit) that walks the queues in order o.
collect_call(limit, o) ==
    /\ collected' = collect_tasks(queues, o, limit)
    /\ fm_call' = [fm_call EXCEPT !.op = "collect", !.part = "-", !.cnt = limit,
                                 !.run = <<>>, !.start = <<>>]
    /\ UNCHANGED <<queues, lru_list, clock, sealed_ids, outside_flush_manager>>

\* A call of dequeue_tasks(p, cnt) for tasks that are in the queue.
dequeue_tasks(p, cnt) ==
    /\ cnt <= Len(queues[p])
    /\ queues' = dequeue_queues(queues, p, cnt)
    /\ lru_list' = dequeue_lru(queues, lru_list, p)
    /\ fm_call' = [fm_call EXCEPT !.op = "dequeue", !.part = p, !.cnt = cnt,
                                 !.run = <<>>, !.start = <<>>]
    /\ UNCHANGED <<collected, clock, sealed_ids, outside_flush_manager>>

\* LruList::get_least_recently_used: the value returned.
lru_picked(items) == IF items = <<>> THEN "None" ELSE Head(items)

\* FlushManager::get_least_recently_used_partition; the driver keeps the
\* values returned by the calls that follow one another (run) and the list
\* these calls started from (start), one round of the list at most.
get_least_recently_used_partition ==
    LET fresh == fm_call.op # "lru" \/ Len(fm_call.run) >= Len(lru_list)
    IN  /\ lru_list' = lru_after_pick(lru_list)
        /\ fm_call' = [fm_call EXCEPT
                          !.op = "lru", !.part = lru_picked(lru_list), !.cnt = 0,
                          !.run = IF lru_list = <<>> THEN <<>>
                                  ELSE IF fresh THEN <<Head(lru_list)>>
                                  ELSE Append(@, Head(lru_list)),
                          !.start = IF fresh THEN lru_list ELSE @]
    /\ UNCHANGED <<queues, collected, clock, sealed_ids, outside_flush_manager>>

\* The queue of the partition is removed and its LRU entry is left.
remove_partition_queue_only(p) ==
    /\ queues' = [queues EXCEPT ![p] = <<>>]
    /\ fm_call' = [fm_call EXCEPT !.op = "remove", !.part = p,
                                 !.cnt = Len(queues[p]),
                                 !.run = <<>>, !.start = <<>>]
    /\ UNCHANGED <<lru_list, collected, clock, sealed_ids, outside_flush_manager>>

\* FlushManager::remove_partition; the driver keeps the number of tasks
\* that were in the queue.
remove_partition(p) ==
    /\ lru_list' = SelectSeq(lru_list, LAMBDA x : x # p)
    /\ queues' = [queues EXCEPT ![p] = <<>>]
    /\ fm_call' = [fm_call EXCEPT !.op = "remove", !.part = p,
                                 !.cnt = Len(queues[p]),
                                 !.run = <<>>, !.start = <<>>]
    /\ UNCHANGED <<collected, clock, sealed_ids, outside_flush_manager>>

\* dequeue_tasks: queue.remove(0) on a queue that has run empty panics.
dequeue_panics(qs, p, cnt) == cnt > Len(qs[p])

\* The flush worker that made the last collect_tasks call dequeues, for one
\* partition, as many tasks as it collected of it. When the removal panics
\* the tasks that were in the queue are gone and the worker is dead.
worker_dequeue(p) ==
    /\ p \in DOMAIN collected
    /\ LET cnt == Len(collected[p])
       IN  /\ queues' = IF dequeue_panics(queues, p, cnt)
                        THEN [queues EXCEPT ![p] = <<>>]
                        ELSE dequeue_queues(queues, p, cnt)
           /\ lru_list' = dequeue_lru(queues, lru_list, p)
           /\ fm_call' = [fm_call EXCEPT
                             !.op = IF dequeue_panics(queues, p, cnt)
                                    THEN "panic" ELSE "dequeue",
                             !.part = p, !.cnt = cnt,
                             !.run = <<>>, !.start = <<>>]
           /\ collected' = IF dequeue_panics(queues, p, cnt) THEN <<>>
                           ELSE [q \in DOMAIN collected \ {p} |-> collected[q]]
    /\ UNCHANGED <<clock, sealed_ids, outside_flush_manager>>

NextFlushManager ==
    \/ \E p \in Partitions : enqueue_task(p)
    \/ \E limit \in 0..MaxTasks, o \in Orders : collect_call(limit, o)
    \/ \E p \in Partitions, cnt \in 1..MaxTasks : dequeue_tasks(p, cnt)
    \/ get_least_recently_used_partition
    \/ \E p \in Partitions : remove_partition(p)
    \/ \E p \in Partitions : worker_dequeue(p)

SpecFlushManager == Init /\ [][NextFlushManager]_vars

\* The flush manager with callers that keep asking for the least recently
\* used partition: rotate_memtable asks in every round of a write halt.
SpecFlushManagerFair ==
    SpecFlushManager /\ WF_vars(get_least_recently_used_partition)

\* Flush workers that run side by side with rotations: each waits on the
\* flush semaphore, collects up to FlushLimit tasks, writes their sealed
\* memtables as segments and has the journal manager compact, and dequeues,
\* partition by partition, as many tasks as it collected.
outside_flush_workers ==
    <<seqno, journal, sealed_journals, active_memtable, approx_size,
      immutable_memtables, segments, l0, compaction_notified, th,
      rotate_calls, io_errors, accepted, flush_signals, held, shards, local,
      collected, clock, sealed_ids>>

\* A rotation enqueues the task of the memtable it sealed and releases the
\* flush semaphore.
rotation_enqueues(p) ==
    /\ fm_call.made < MaxTasks
    /\ queues' = [queues EXCEPT ![p] = Append(@, fm_call.made + 1)]
    /\ fm_call' = [op |-> "enqueue", part |-> p, cnt |-> 1,
                   made |-> fm_call.made + 1, run |-> <<>>, start |-> <<>>]
    /\ flush_semaphore' = flush_semaphore + 1
    /\ UNCHANGED <<lru_list, workers, written, outside_flush_workers>>

\* Step 1: wait on the semaphore.
worker_wait(w) ==
    /\ workers[w].pc = "idle"
    /\ flush_semaphore > 0
    /\ flush_semaphore' = flush_semaphore - 1
    /\ workers' = [workers EXCEPT ![w].pc = "woken"]
    /\ UNCHANGED <<queues, lru_list, fm_call, written, outside_flush_workers>>

\* Step 2: collect up to FlushLimit tasks; the queues are walked in order o.
worker_collect(w, o) ==
    /\ workers[w].pc = "woken"
    /\ LET c == collect_tasks(queues, o, FlushLimit)
       IN workers' = [workers EXCEPT ![w] =
                        IF DOMAIN c = {} THEN IdleWorker
                        ELSE [pc |-> "collected", tasks |-> c]]
    /\ UNCHANGED <<queues, lru_list, fm_call, flush_semaphore, written,
                   outside_flush_workers>>

\* The tasks in a collection.
TasksIn(c) == UNION {{c[p][i] : i \in 1..Len(c[p])} : p \in DOMAIN c}

\* Steps 3 and 4: every collected sealed memtable is written as a segment
\* and the journal manager compacts.
worker_write(w) ==
    /\ workers[w].pc = "collected"
    /\ written' = [i \in DOMAIN written |->
                     IF i \in TasksIn(workers[w].tasks)
                     THEN written[i] + 1 ELSE written[i]]
    /\ workers' = [workers EXCEPT ![w].pc = "written"]
    /\ UNCHANGED <<queues, lru_list, fm_call, flush_semaphore,
                   outside_flush_workers>>

\* Step 5, for one partition: dequeue_tasks with the number of tasks the
\* worker collected of it. When the removal panics the tasks that were in
\* the queue are gone and the worker is dead.
worker_dequeues(w, p) ==
    /\ workers[w].pc = "written"
    /\ p \in DOMAIN workers[w].tasks
    /\ LET c == workers[w].tasks
           cnt == Len(c[p])
           rest == [q \in DOMAIN c \ {p} |-> c[q]]
       IN  /\ queues' = IF dequeue_panics(queues, p, cnt)
                        THEN [queues EXCEPT ![p] = <<>>]
                        ELSE dequeue_queues(queues, p, cnt)
           /\ lru_list' = dequeue_lru(queues, lru_list, p)
           /\ fm_call' = [fm_call EXCEPT
                             !.op = IF dequeue_panics(queues, p, cnt)
                                    THEN "panic" ELSE "dequeue",
                             !.part = p, !.cnt = cnt,
                             !.run = <<>>, !.start = <<>>]
           /\ workers' = [workers EXCEPT ![w] =
                            IF dequeue_panics(queues, p, cnt)
                            THEN [pc |-> "dead", tasks |-> <<>>]
                            ELSE IF DOMAIN rest = {} THEN IdleWorker
                            ELSE [pc |-> "written", tasks |-> rest]]
    /\ UNCHANGED <<flush_semaphore, written, outside_flush_workers>>

NextFlushWorkers ==
    \/ \E p \in Partitions : rotation_enqueues(p)
    \/ \E w \in Workers : worker_wait(w)
    \/ \E w \in Workers, o \in Orders : worker_collect(w, o)
    \/ \E w \in Workers : worker_write(w)
    \/ \E w \in Workers, p \in Partitions : worker_dequeues(w, p)

SpecFlushWorkers == Init /\ [][NextFlushWorkers]_vars

\* Sealed memtable ids: generate_segment_id at the times of successive
\* rotations of one partition.
BASE_36_RADIX == 36
MaxIds == 2

\* std::char::from_digit(m, 36) as its byte, and the byte of '_'.
from_digit(m) == IF m < 10 THEN 48 + m ELSE 87 + m
Underscore == 95

\* to_base36: the digits of x, most significant first, no padding.
RECURSIVE to_base36(_)
to_base36(x) ==
    IF x \div BASE_36_RADIX = 0 THEN <<from_digit(x % BASE_36_RADIX)>>
    ELSE Append(to_base36(x \div BASE_36_RADIX), from_digit(x % BASE_36_RADIX))

\* generate_segment_id at time now with the random number random.
generate_segment_id(now, random) ==
    to_base36(now.month) \o to_base36(now.day) \o <<Underscore>>
        \o to_base36(now.hour) \o to_base36(now.min) \o <<Underscore>>
        \o to_base36(now.nano) \o <<Underscore>> \o to_base36(random)

\* The order of str, which is the key order of the BTreeMap: bytewise
\* lexicographic.
RECURSIVE str_lt(_, _)
str_lt(a, b) ==
    IF b = <<>> THEN FALSE
    ELSE IF a = <<>> THEN TRUE
    ELSE IF Head(a) # Head(b) THEN Head(a) < Head(b)
    ELSE str_lt(Tail(a), Tail(b))

\* The times of the rotations, and the random numbers.
Instants ==
    [month : {12}, day : {31}, hour : {9, 10}, min : {35, 36}, sec : {0, 1},
     nano : {35, 36}]
Randoms == {0, 1}

\* Time a is before time b.
Earlier(a, b) ==
    LET ka == <<a.month, a.day, a.hour, a.min, a.sec, a.nano>>
        kb == <<b.month, b.day, b.hour, b.min, b.sec, b.nano>>
    IN \E i \in 1..6 : ka[i] < kb[i] /\ \A j \in 1..(i - 1) : ka[j] = kb[j]

\* A rotation at a later time than the last one gives its sealed memtable
\* the id generate_segment_id returns.
seal_with_id(now, random) ==
    /\ Len(sealed_ids) < MaxIds
    /\ Earlier(clock, now)
    /\ clock' = now
    /\ sealed_ids' = Append(sealed_ids, generate_segment_id(now, random))
    /\ UNCHANGED <<queues, lru_list, collected, fm_call, outside_flush_manager>>

NextIds == \E now \in Instants, random \in Randoms : seal_with_id(now, random)

SpecIds == Init /\ [][NextIds]_vars

\* One writer on trees whose L0 already holds segments, the flush worker
\* and the compaction workers in the background.
L0Counts == {0, L0HardLimit, L0HardLimit + 1}

InitStall ==
    /\ seqno = 0
    /\ journal = {}
    /\ sealed_journals = <<>>
    /\ active_memtable = [p \in Partitions |-> {}]
    /\ approx_size = [p \in Partitions |-> 0]
    /\ immutable_memtables = [p \in Partitions |-> {}]
    /\ segments = [p \in Partitions |-> {}]
    /\ l0 \in [Partitions -> L0Counts]
    /\ queues = [p \in Partitions |-> <<>>]
    /\ lru_list = <<>>
    /\ flush_semaphore = 0
    /\ compaction_notified = {}
    /\ th = [t \in Threads |-> IdleThread("none", "-")]
    /\ rotate_calls = 0
    /\ io_errors = 0
    /\ accepted = [p \in Partitions |-> {}]
    /\ flush_signals = [enqueued |-> 0, released |-> 0]
    /\ AuxInit

NextStall ==
    \/ \E p \in Partitions : insert(Writer, p, "a", "v1")
    \/ \E p \in Partitions : remove(Writer, p, "a")
    \/ \E p \in Partitions : rotate_call(Writer, p)
    \/ Step(Writer)
    \/ Flush
    \/ \E p \in Partitions : compaction_worker(p)

SpecStall == InitStall /\ [][NextStall]_vars

\* The concurrent writers, then the keyspace closed and reopened.
NextRecovery ==
    \/ Next
    \/ close
    \/ reopen

SpecRecovery == Init /\ [][NextRecovery]_vars

----------------------------------------------------------------------------
\* Properties

AllIdle == \A t \in Threads : th[t].pc = "idle"

\* C1: when the journal write of an insert or a remove fails, the call
\* returns the I/O error at once and the memtables (entries and approximate
\* size) are as before the call: nothing is rotated, enqueued or notified.
C1_FailedWriteLeavesMemtable ==
    [][io_errors' # io_errors =>
          /\ active_memtable' = active_memtable
          /\ approx_size' = approx_size
          /\ immutable_memtables' = immutable_memtables
          /\ journal' = journal
          /\ sealed_journals' = sealed_journals
          /\ queues' = queues
          /\ flush_semaphore' = flush_semaphore
          /\ compaction_notified' = compaction_notified
          /\ \E t \in Threads :
                /\ th[t].pc = "idle"
                /\ th'[t].pc = "idle"
                /\ th'[t].res = "IoError"
                /\ th'[t].stack = <<>>
                /\ \A u \in Threads \ {t} : th'[u] = th[u]]_vars

\* A call returned the I/O error while a memtable holds entries.
C1_Witness ==
    /\ io_errors > 0
    /\ \E t \in Threads : th[t].pc = "idle" /\ th[t].res = "IoError"
    /\ \E p \in Partitions : active_memtable[p] # {} /\ approx_size[p] > 0

\* The journals that exist: 0 is the active one, i > 0 the i-th sealed one.
JournalRecs(i) == IF i = 0 THEN journal ELSE sealed_journals[i].recs

JournalsHolding(r) == {i \in 0..Len(sealed_journals) : r \in JournalRecs(i)}

\* C2: every mutation in an active or a sealed memtable has its record in
\* exactly one journal that still exists.
C2_UnflushedMutationJournaled ==
    \A p \in Partitions :
        \A e \in active_memtable[p] \cup UNION immutable_memtables[p] :
            Cardinality(JournalsHolding(Record(p, e))) = 1

\* C3: after a close, every reopen shows each partition with exactly the
\* keys accepted before the close, the same len and the same forward and
\* backward iteration counts.
C3_ReopenShowsAccepted ==
    Recovered =>
        \A p \in Partitions :
            /\ iter(p) = VisibleSeq(accepted[p])
            /\ len(p) = Cardinality(VisibleKeys(accepted[p]))
            /\ Len(iter_rev(p)) = Len(iter(p))

\* The keys of partition p whose newest accepted record is a Value.
NewestIsValue(p) ==
    {k \in Keys : HasKey(accepted[p], k) /\ Newest(accepted[p], k).kind = "Value"}

\* C4: len(P) is the number of distinct keys of P whose newest record is a
\* Value, a step that applies no mutation (a rotation, a flush) leaves len
\* as it is, and the reverse iteration yields as many items as the forward
\* one.
C4_LenCountsNewestValues ==
    /\ [](\A p \in Partitions :
            /\ len(p) = Cardinality(NewestIsValue(p))
            /\ Len(iter_rev(p)) = Len(iter(p)))
    /\ [][accepted' = accepted => \A p \in Partitions : len(p)' = len(p)]_vars

\* A partition whose memtable was rotated while it held a visible key.
C4_Witness ==
    \E p \in Partitions :
        /\ immutable_memtables[p] # {}
        /\ active_memtable[p] = {}
        /\ len(p) = 1

\* The LSNs of every record written so far.
WrittenLsns ==
    {r.lsn : r \in journal}
    \cup UNION {{r.lsn : r \in sealed_journals[i].recs} : i \in 1..Len(sealed_journals)}
    \cup UNION {{e.lsn : e \in accepted[p]} : p \in Partitions}

\* C5: when insert(k, v) returns, get(k) is v; when remove(k) returns,
\* get(k) is None and contains_key(k) is false; the record a remove writes
\* is a Tombstone with an empty value under an LSN larger than every LSN
\* written before, the same in the journal and in the memtable; rotating
\* and flushing a memtable changes no answer of get.
C5_GetAfterInsertAndRemove ==
    [][/\ \A t \in Threads, p \in Partitions, k \in Keys :
            (/\ th[t].pc = "soft" /\ th'[t].pc = "idle"
             /\ th[t].part = p /\ th[t].key = k) =>
                /\ get(p, k)' =
                      (IF th[t].kind = "Value" THEN th[t].val ELSE NoValue)
                /\ contains_key(p, k)' = (th[t].kind = "Value")
       /\ \A r \in journal' \ journal :
            /\ \A l \in WrittenLsns : l < r.lsn
            /\ r.kind = "Tombstone" => r.val = EmptyValue
       /\ \A p \in Partitions :
            \A e \in active_memtable'[p] \ active_memtable[p] :
                /\ JournalsHolding(Record(p, e)) # {}
                /\ e.kind = "Tombstone" => e.val = EmptyValue
       /\ accepted' = accepted =>
            \A p \in Partitions, k \in Keys : get(p, k)' = get(p, k)]_vars

\* A key was inserted and removed, and the tombstone was rotated and flushed.
C5_Witness ==
    /\ AllIdle
    /\ \E p \in Partitions, k \in Keys :
          /\ \E e \in segments[p] : e.key = k /\ e.kind = "Value"
          /\ \E e \in segments[p] : e.key = k /\ e.kind = "Tombstone"
          /\ get(p, k) = NoValue
          /\ ~contains_key(p, k)

\* Every mutation whose journal write succeeded: applied or about to be.
Mutations ==
    UNION {{<<p, e>> : e \in accepted[p]} : p \in Partitions}
    \cup {<<th[t].part, Entry(th[t].key, th[t].val, th[t].kind, th[t].lsn)>> :
            t \in {u \in Threads : th[u].pc = "mem"}}

\* C6: when all N calls issued so far succeeded, their mutations carry N
\* pairwise distinct LSNs, the range 0 .. N-1 (the counter starts at 0); and
\* once the calls have returned and all were inserts, the visible keys are
\* the keys inserted.
C6_LsnsDistinctAndContiguous ==
    io_errors = 0 =>
        /\ Cardinality(Mutations) = seqno
        /\ {m[2].lsn : m \in Mutations} = 0..(seqno - 1)
        /\ \A m, n \in Mutations : m # n => m[2].lsn # n[2].lsn
        /\ (AllIdle /\ \A m \in Mutations : m[2].kind = "Value") =>
              \A p \in Partitions :
                  VisibleKeys(TreeEntries(p)) = {e.key : e \in accepted[p]}

\* Two concurrent calls both succeeded and are applied.
C6_Witness ==
    /\ io_errors = 0
    /\ seqno >= 2
    /\ Cardinality(Mutations) = seqno
    /\ \A t \in Threads : th[t].pc = "idle" /\ th[t].res = "Ok"
                          /\ th[t].kind \in {"Value", "Tombstone"}

C8_DrainRotatesIdlePartition ==
    [][\A t \in Threads :
          LET d == Len(th[t].stack)
          IN (/\ InFrame(t, "drain")
              /\ th'[t] # th[t]
              /\ 3 * Top(t).jsize > 2 * max_journaling_size_in_bytes
              /\ \E q \in Partitions \ {Top(t).part} : active_memtable[q] # {}) =>
                 /\ Len(th'[t].stack) = d + 1
                 /\ th'[t].stack[d + 1].pc = "start"
                 /\ th'[t].stack[d + 1].part # Top(t).part]_vars

\* C9 as stated: check_write_stall returns only when no partition has more
\* than 20 segments in L0.
C9_StallWaitsForEveryPartition ==
    [][\A t \in Threads :
          (th[t].pc = "stall" /\ th'[t].pc # "stall") =>
              \A p \in Partitions : l0[p] <= 20]_vars

\* C9: check_write_stall returns only when the partition written to has at
\* most 20 segments in L0; while it has more, a round notifies the
\* compaction manager of that partition and the writer stays in the loop.
C9_StallWaitsForOwnPartition ==
    [][\A t \in Threads :
          /\ (th[t].pc = "stall" /\ th'[t].pc # "stall") =>
                /\ l0[th[t].part] <= 20
                /\ th'[t].pc = "soft"
          /\ (/\ th[t].pc = "stall"
              /\ l0[th[t].part] > 20
              /\ l0' = l0
              /\ flush_semaphore' = flush_semaphore) =>
                /\ th'[t] = th[t]
                /\ compaction_notified' = compaction_notified \cup {th[t].part}]_vars

\* A writer is held in check_write_stall and has notified the compaction
\* manager.
C9_Witness ==
    \E t \in Threads :
        /\ th[t].pc = "stall"
        /\ l0[th[t].part] > 20
        /\ th[t].part \in compaction_notified
        /\ segments[th[t].part] # {}

\* C10: a rotate_memtable call that finds the active memtable of its
\* partition empty returns Ok and changes nothing: no memtable is sealed,
\* no sealed journal is added, the active journal stays, no flush task is
\* enqueued and the flush semaphore is not released.
C10_EmptyRotationIsNoOp ==
    [][\A t \in Threads :
          LET d == Len(th[t].stack)
          IN (/\ InFrame(t, "start")
              /\ active_memtable[Top(t).part] = {}
              /\ th'[t] # th[t]) =>
                 /\ Len(th'[t].stack) < d
                 /\ (th[t].pc = "rotate_call" /\ d = 1) =>
                        th'[t] = IdleThread("Ok", "Rotate")
                 /\ UNCHANGED <<seqno, journal, sealed_journals,
                                active_memtable, approx_size,
                                immutable_memtables, segments, l0, queues,
                                lru_list, flush_semaphore, compaction_notified>>]_vars

\* A direct rotate_memtable call returned Ok although nothing was ever
\* sealed, while the journal holds records.
C10_Witness ==
    /\ \E t \in Threads : th[t] = IdleThread("Ok", "Rotate")
    /\ rotate_calls > 0
    /\ sealed_journals = <<>>
    /\ journal # {}
    /\ flush_semaphore = 0
    /\ \A p \in Partitions :
          immutable_memtables[p] = {} /\ segments[p] = {} /\ queues[p] = <<>>

\* C11: when a rotation seals a journal, the seqno map attached to it has,
\* for every partition with a record in that journal that is not yet in a
\* segment, an entry with an LSN at least as large as that record's LSN.
C11_SeqnoMapCoversSealedJournal ==
    [][Len(sealed_journals') = Len(sealed_journals) + 1 =>
          LET j == sealed_journals'[Len(sealed_journals')]
          IN \A r \in j.recs :
                Entry(r.key, r.val, r.kind, r.lsn) \notin segments[r.part] =>
                    /\ r.part \in DOMAIN j.map
                    /\ j.map[r.part] >= r.lsn]_vars

ReleasePending ==
    Cardinality({<<t, i>> \in Threads \X (1..MaxDepth) :
                    i <= Len(th[t].stack) /\ th[t].stack[i].pc = "notify"})

CollectedTotal(c) ==
    Cardinality(UNION {Range(c[p]) : p \in DOMAIN c})

\* C19: collect_tasks(limit) returns at most limit tasks in total, for each
\* partition the first tasks of its queue in queue order, no partition with
\* an empty list, and leaves the queues and the LRU list unchanged.
C19_CollectReturnsQueuePrefixes ==
    [][fm_call'.op = "collect" =>
          /\ CollectedTotal(collected') <= fm_call'.cnt
          /\ \A p \in DOMAIN collected' :
                /\ collected'[p] # <<>>
                /\ Len(collected'[p]) <= Len(queues[p])
                /\ collected'[p] = SubSeq(queues[p], 1, Len(collected'[p]))
          /\ queues' = queues
          /\ lru_list' = lru_list]_vars

\* A collect stopped by its limit in the middle of a queue, with tasks
\* left in both queues.
C19_Witness ==
    /\ fm_call.op = "collect"
    /\ CollectedTotal(collected) = fm_call.cnt
    /\ \E p \in DOMAIN collected :
          /\ Len(collected[p]) >= 1
          /\ Len(collected[p]) < Len(queues[p])
    /\ \A p \in Partitions : queues[p] # <<>>

C18_SealedIdsOrderedByRotation ==
    \A i, j \in DOMAIN sealed_ids :
        i < j => str_lt(sealed_ids[i], sealed_ids[j])

\* C12: no thread acquires a lock while it holds one of the same or a
\* higher level of the lock hierarchy: the locks a thread holds, in the
\* order it took them, have strictly increasing levels.
C12_LocksTakenInHierarchyOrder ==
    \A t \in Threads : \A i, j \in DOMAIN held[t] :
        i < j => LockLevel(held[t][i]) < LockLevel(held[t][j])

\* C13: the LSNs of the records of every shard of the active journal are
\* strictly increasing in the order they were written.
C13_ShardLsnsIncrease ==
    \A s \in Shards : \A i, j \in DOMAIN shards[s] :
        i < j => shards[s][i] < shards[s][j]

\* Two records were written to one shard while a later LSN was already
\* drawn by a writer holding another shard.
C13_Witness ==
    \E s \in Shards :
        /\ Len(shards[s]) >= 2
        /\ \E t \in Threads : th[t].pc = "lsn" /\ local[t].shard # s

NoDuplicates(items) ==
    \A i, j \in 1..Len(items) : items[i] = items[j] => i = j

C21_LruPickIsRoundRobin ==
    [][/\ NoDuplicates(lru_list')
       /\ fm_call'.op = "lru" =>
            /\ fm_call'.part = (IF lru_list = <<>> THEN "None" ELSE lru_list[1])
            /\ Len(lru_list') = Len(lru_list)
            /\ lru_list # <<>> =>
                 /\ lru_list'[Len(lru_list')] = lru_list[1]
                 /\ SelectSeq(lru_list', LAMBDA x : x # lru_list[1])
                      = SubSeq(lru_list, 2, Len(lru_list))
            /\ Len(fm_call'.run) <= Len(lru_list')
            /\ fm_call'.run = SubSeq(fm_call'.start, 1, Len(fm_call'.run))
            /\ NoDuplicates(fm_call'.run)
            /\ Len(fm_call'.run) = Len(lru_list') => lru_list' = fm_call'.start
      ]_vars

\* A round of two calls on a list of two partitions is complete.
C21_Witness ==
    /\ fm_call.op = "lru"
    /\ Len(lru_list) = 2
    /\ Len(fm_call.run) = 2

\* C22 as stated: the partition returned by get_least_recently_used, or
\* refreshed by dequeue_tasks, is not returned by the call that follows
\* immediately.
C22_JustUsedIsNotPickedNext ==
    [][(/\ fm_call'.op = "lru"
        /\ fm_call.op \in {"lru", "dequeue"}
        /\ fm_call.part \in Partitions)
       => fm_call'.part # fm_call.part]_vars

InLruList(p) == \E i \in 1..Len(lru_list) : lru_list[i] = p

\* C22, amended: the partition returned by get_least_recently_used, or
\* refreshed by dequeue_tasks, is not returned by the call that follows
\* immediately unless it is the only entry of the LRU list; and every
\* partition in the list is returned by a later call, unless it is flushed
\* or removed itself before.
C22_JustUsedWaitsAndNoneStarves ==
    /\ [][(/\ fm_call'.op = "lru"
            /\ fm_call.op \in {"lru", "dequeue"}
            /\ fm_call.part \in Partitions
            /\ Len(lru_list) >= 2)
           => fm_call'.part # fm_call.part]_vars
    /\ \A p \in Partitions :
          InLruList(p) ~>
              \/ fm_call.op \in {"lru", "dequeue"} /\ fm_call.part = p
              \/ ~InLruList(p)

\* The first call after a flush, on a list of two partitions, returned
\* the partition that was not flushed; tasks of that one are still queued.
C22_Witness ==
    /\ fm_call.op = "lru"
    /\ Len(fm_call.run) = 1
    /\ Len(lru_list) = 2
    /\ fm_call.part = lru_list[2]
    /\ queues[fm_call.part] # <<>>

\* C23: remove_partition(name) erases the flush queue and the LRU entry of
\* the partition: collect_tasks then returns no task of it, whatever the
\* limit and the walk, and get_least_recently_used does not return it;
\* the queues of the other partitions and the order of the other LRU
\* entries are as they were.
C23_RemovePartitionErasesQueueAndEntry ==
    [][fm_call'.op = "remove" =>
          LET p == fm_call'.part
          IN  /\ queues'[p] = <<>>
              /\ \A i \in 1..Len(lru_list') : lru_list'[i] # p
              /\ lru_picked(lru_list') # p
              /\ \A limit \in 0..MaxTasks, o \in Orders :
                    p \notin DOMAIN collect_tasks(queues', o, limit)
              /\ \A q \in Partitions \ {p} : queues'[q] = queues[q]
              /\ lru_list' = SelectSeq(lru_list, LAMBDA x : x # p)
      ]_vars

\* A partition with queued tasks was removed while another partition,
\* flushed before, has its entry in the LRU list.
C23_Witness ==
    /\ fm_call.op = "remove"
    /\ fm_call.cnt >= 1
    /\ \E q \in Partitions \ {fm_call.part} : InLruList(q)

\* C27: a dequeue_tasks call of a flush worker, whose count is the number
\* of tasks it collected of the partition, completes and removes the tasks
\* it collected and no others, whatever calls came between its
\* collect_tasks and its dequeue_tasks; when the partition was removed in
\* between, the flush manager is left without tasks and without an LRU
\* entry of the partition.
C27_WorkerDequeueAlwaysCompletes ==
    [][(fm_call'.op \in {"dequeue", "panic"} /\ collected' # collected) =>
          LET p == fm_call'.part
          IN  /\ fm_call'.op = "dequeue"
              /\ SubSeq(queues[p], 1, fm_call'.cnt) = collected[p]
              /\ (fm_call.op = "remove" /\ fm_call.part = p) =>
                    /\ queues'[p] = <<>>
                    /\ \A i \in 1..Len(lru_list') : lru_list'[i] # p
      ]_vars

\* C25: a writer that sleeps, in the write halt of a rotation (nested or
\* not), in check_write_stall or in the L0 soft stall, holds no lock: not
\* the journal full lock, not a shard, not the partitions registry, not the
\* journal manager's and not the flush manager's lock.
Sleeps(t) ==
    \/ th[t].pc \in {"stall", "soft"}
    \/ th[t].stack # <<>> /\ Top(t).pc = "halt"

RotationUnderWay(p) ==
    \E t \in Threads : \E i \in 1..Len(th[t].stack) : th[t].stack[i].part = p

TasksOf(p, memtable) == {i \in 1..Len(queues[p]) : queues[p][i] = memtable}

C24_SealedMemtableHasOneFlushTask ==
    \A p \in Partitions :
        ~RotationUnderWay(p) =>
            \A memtable \in immutable_memtables[p] :
                Cardinality(TasksOf(p, memtable)) = 1

\* C26: with flush workers running beside rotations, a task leaves its
\* queue only after the sealed memtable of that task was written as a
\* segment, and no sealed memtable is written twice.
Queued(qs) == UNION {{qs[p][i] : i \in 1..Len(qs[p])} : p \in Partitions}

C26_DequeuedOnlyAfterWrittenOnce ==
    [][/\ \A task \in Queued(queues) \ Queued(queues') : written[task] >= 1
       /\ \A task \in DOMAIN written : written'[task] <= 1
      ]_vars

\* C28: with a flush worker that keeps running and no failing I/O, every
\* rotate_memtable call returns: its nested rotations end and the write halt
\* it entered is left, also when a sealed journal's seqno map names a
\* partition that is not in the LRU list. Calls that the bound on the
\* depth of nesting keeps from going on are left aside.
InRotation(t) == th[t].stack # <<>>

AtMaxDepth(t) ==
    /\ Len(th[t].stack) >= MaxDepth
    /\ lru_list # <<>>
    /\ Top(t).pc \in {"drain", "halt_pick"}

C28_EveryRotationReturns ==
    \A t \in Threads : InRotation(t) ~> (~InRotation(t) \/ AtMaxDepth(t))

====
